---- MODULE Spec2Model ----
(***************************************************************************)
(* Model of the streaming JSON writer of package johanson                  *)
(* (src/streamwriter.go).                                                  *)
(*                                                                         *)
(* The heap holds the val objects (value contexts, type V) and the obj     *)
(* objects (object contexts, type K).  The byte sink is modelled by the    *)
(* sequence of tokens handed to it, one token per JSON lexeme.  A callback *)
(* passed to Array or Object is code of the caller: while it runs the      *)
(* caller may invoke any method on any handle it has ever obtained, and it *)
(* returns whenever it likes; the part of Array/Object that follows the    *)
(* callback is the step ArrayReturn/ObjectReturn of the innermost open     *)
(* call.                                                                   *)
(***************************************************************************)
EXTENDS Integers, Sequences, FiniteSets, TLC

VARIABLES
    vals,      \* heap of val structs, indexed 1..Len(vals); vals[1] is the root
    objs,      \* heap of obj structs
    out,       \* tokens written to the underlying writer, in order
    stack,     \* activation records of Array/Object calls whose callback runs,
               \* each with a record of the calls made to fill the composite
    err,       \* writerWrapper.Err (0 is nil)
    panicked,  \* the Go runtime panicked (nil dereference)
    last       \* the call made last: method, receiver, result

vars == <<vals, objs, out, stack, err, panicked, last>>

\* Bounds of the model.
MaxHeap == 4
MaxOut == 5

\* The nil value of type V.
NilV == 0

-----------------------------------------------------------------------------
(* Go values handed to the marshaler and the scalar writers.               *)

IntV(n) == [t |-> "int", n |-> n]
FuncV == [t |-> "func"]
MapV(kv) == [t |-> "map", kv |-> kv]

Digits == <<"0", "1", "2", "3", "4", "5", "6", "7", "8", "9">>

RECURSIVE FormatUint(_)
FormatUint(n) ==
    IF n < 10 THEN Digits[n + 1]
    ELSE FormatUint(n \div 10) \o Digits[(n % 10) + 1]

FormatInt(n) == IF n < 0 THEN "-" \o FormatUint(0 - n) ELSE FormatUint(n)

\* A float64 is given in halves (h stands for h/2): whole numbers print
\* without a fraction, as encoding/json prints them.
FormatFloat(h) ==
    IF h % 2 = 0 THEN FormatInt(h \div 2)
    ELSE (IF h < 0 THEN "-" ELSE "") \o
         FormatUint((IF h < 0 THEN 0 - h ELSE h) \div 2) \o ".5"

\* A Go string is a sequence of characters.
EscapeChar(c) ==
    IF c = "\"" THEN "\\\"" ELSE IF c = "\\" THEN "\\\\" ELSE c

RECURSIVE EscapeString(_)
EscapeString(s) ==
    IF s = <<>> THEN "" ELSE EscapeChar(Head(s)) \o EscapeString(Tail(s))

QuoteString(s) == "\"" \o EscapeString(s) \o "\""

\* json.Marshal: the tokens of the encoding, or an error.
RECURSIVE json_Marshal(_)
RECURSIVE MarshalPairs(_)
MarshalPairs(kv) ==
    IF kv = <<>> THEN [bytes |-> <<>>, err |-> FALSE]
    ELSE LET v == json_Marshal(Head(kv).v)
             rest == MarshalPairs(Tail(kv))
         IN IF v.err \/ rest.err THEN [bytes |-> <<>>, err |-> TRUE]
            ELSE [bytes |-> <<QuoteString(Head(kv).k), ":">> \o v.bytes \o
                            (IF Tail(kv) = <<>> THEN <<>> ELSE <<",">>) \o
                            rest.bytes,
                  err |-> FALSE]

json_Marshal(value) ==
    IF value.t = "int" THEN [bytes |-> <<FormatInt(value.n)>>, err |-> FALSE]
    ELSE IF value.t = "func" THEN [bytes |-> <<>>, err |-> TRUE]
    ELSE LET p == MarshalPairs(value.kv)
         IN IF p.err THEN [bytes |-> <<>>, err |-> TRUE]
            ELSE [bytes |-> <<"{">> \o p.bytes \o <<"}">>, err |-> FALSE]

\* Inputs of the calls.
BoolArgs == {TRUE}
IntArgs == {1}
UintArgs == {1}
FloatArgs == {2}
StringArgs == {<<"k">>}
KeyArgs == {<<"k">>}
MarshalArgs == {IntV(1), FuncV}
MapArgs == {MapV(<<>>), MapV(<<[k |-> <<"k">>, v |-> IntV(1)]>>),
            MapV(<<[k |-> <<"k">>, v |-> FuncV]>>)}
FnArgs == {"nil", "fn"}
\* Results of the underlying writer's Write: 0 is a nil error.
SinkOk == {0}

-----------------------------------------------------------------------------
(* The heap objects.                                                       *)

\* val{w, ctx, paused}; the fields of the context object are kept with it:
\* nonEmpty (jsonContextArray), key and obj (jsonContextObjectItem).
\* History kept beside the fields: made (the context the val was created
\* with), of (the obj whose Item created it), got (a write through it was
\* accepted and its value produced or begun), done (such a write returned).
Val(w, ctx, key, o) ==
    [w |-> w, ctx |-> ctx, paused |-> FALSE, nonEmpty |-> FALSE,
     key |-> key, obj |-> o,
     made |-> ctx, of |-> o, got |-> FALSE, done |-> FALSE]

Obj(w) == [w |-> w, nonEmpty |-> FALSE, paused |-> FALSE]

\* The state a handler works on: the heap, the sink, and the result e the
\* underlying writer gives to the Write calls of this handler.
State(e) ==
    [vals |-> vals, objs |-> objs, out |-> out, err |-> err,
     panic |-> FALSE, e |-> e]

\* A nil dereference: the handler stops where it is.
Panic(S) == [S EXCEPT !.panic = TRUE]

\* Write that keeps the first error and drops the later ones.
writerWrapper_Write_First(S, p) ==
    IF S.panic THEN S
    ELSE [S EXCEPT !.out = @ \o p,
                   !.err = IF S.e # 0 /\ @ = 0 THEN S.e ELSE @]

\* Write that gives up once an error is held.
writerWrapper_Write_StopOnError(S, p) ==
    IF S.panic \/ S.err # 0 THEN S
    ELSE [S EXCEPT !.out = @ \o p, !.err = IF S.e # 0 THEN S.e ELSE @]

writerWrapper_Write(S, p) ==
    IF S.panic THEN S
    ELSE [S EXCEPT !.out = @ \o p, !.err = IF S.e # 0 THEN S.e ELSE @]

\* v.w.Write(p) and o.w.Write(p): w is an interface value that may be nil.
val_w_Write(S, h, p) ==
    IF S.panic THEN S
    ELSE IF S.vals[h].w THEN writerWrapper_Write(S, p) ELSE Panic(S)

obj_w_Write(S, o, p) ==
    IF S.panic THEN S
    ELSE IF S.objs[o].w THEN writerWrapper_Write(S, p) ELSE Panic(S)

-----------------------------------------------------------------------------
(* Contexts.                                                               *)

\* prewrite of an array context that writes a comma before every value.
jsonContextArray_prewrite_AlwaysComma(S, h) ==
    LET S1 == val_w_Write(S, h, <<",">>)
    IN [s |-> IF S1.panic THEN S1 ELSE [S1 EXCEPT !.vals[h].nonEmpty = TRUE],
        single |-> FALSE]

jsonContextArray_prewrite(S, h) ==
    LET S1 == IF S.vals[h].nonEmpty THEN val_w_Write(S, h, <<",">>) ELSE S
    IN [s |-> IF S1.panic THEN S1 ELSE [S1 EXCEPT !.vals[h].nonEmpty = TRUE],
        single |-> FALSE]

\* prewrite of a single value context that reports a multi value context.
jsonContextSingle_prewrite_Multi(S, h) == [s |-> S, single |-> FALSE]

jsonContextSingle_prewrite(S, h) == [s |-> S, single |-> TRUE]

\* prewrite of an object that does not record that an item was written.
obj_prewrite_NoFlag(S, o) ==
    IF ~S.objs[o].w /\ S.objs[o].paused
    THEN [s |-> S, ok |-> FALSE]
    ELSE [s |-> IF S.objs[o].nonEmpty THEN obj_w_Write(S, o, <<",">>) ELSE S,
          ok |-> TRUE]

\* prewrite of an object that never writes the comma.
obj_prewrite_NoComma(S, o) ==
    IF ~S.objs[o].w /\ S.objs[o].paused
    THEN [s |-> S, ok |-> FALSE]
    ELSE [s |-> [S EXCEPT !.objs[o].nonEmpty = TRUE], ok |-> TRUE]

obj_prewrite(S, o) ==
    IF ~S.objs[o].w /\ S.objs[o].paused
    THEN [s |-> S, ok |-> FALSE]
    ELSE LET S1 == IF S.objs[o].nonEmpty THEN obj_w_Write(S, o, <<",">>) ELSE S
         IN [s |-> IF S1.panic THEN S1
                   ELSE [S1 EXCEPT !.objs[o].nonEmpty = TRUE],
             ok |-> TRUE]

jsonContextObjectItem_prewrite(S, h) ==
    LET p == obj_prewrite(S, S.vals[h].obj)
    IN [s |-> IF p.ok
              THEN val_w_Write(
                       val_w_Write(p.s, h, <<QuoteString(S.vals[h].key)>>),
                       h, <<":">>)
              ELSE p.s,
        single |-> TRUE]

ctx_prewrite(S, h) ==
    IF S.vals[h].ctx = "array" THEN jsonContextArray_prewrite(S, h)
    ELSE IF S.vals[h].ctx = "item" THEN jsonContextObjectItem_prewrite(S, h)
    ELSE jsonContextSingle_prewrite(S, h)

\* jsonContextSingle and jsonContextArray hold a pointer to the paused field
\* of the val they belong to; jsonContextObjectItem pauses its obj.
ctx_pause(S, h, on) ==
    IF S.panic THEN S
    ELSE IF S.vals[h].ctx = "item"
         THEN [S EXCEPT !.objs[S.vals[h].obj].paused = on]
         ELSE [S EXCEPT !.vals[h].paused = on]

\* prewrite of a val that does not look at the pause flag.
val_prewrite_NoPauseCheck(S, h) ==
    IF h = NilV \/ ~S.vals[h].w \/ S.vals[h].ctx = "none"
    THEN [s |-> S, ok |-> FALSE, single |-> FALSE]
    ELSE LET c == ctx_prewrite(S, h)
         IN [s |-> c.s, ok |-> TRUE, single |-> c.single]

val_prewrite(S, h) ==
    IF h = NilV \/ ~S.vals[h].w \/ S.vals[h].ctx = "none" \/ S.vals[h].paused
    THEN [s |-> S, ok |-> FALSE, single |-> FALSE]
    ELSE LET c == ctx_prewrite(S, h)
         IN [s |-> c.s, ok |-> TRUE, single |-> c.single]

\* postwrite that forgets to retire a single-value context.
val_postwrite_NoRetire(S, h, single) ==
    IF S.panic THEN S
    ELSE IF S.vals[h].ctx # "none" THEN ctx_pause(S, h, FALSE) ELSE S

val_postwrite(S, h, single) ==
    IF S.panic THEN S
    ELSE IF S.vals[h].ctx # "none"
         THEN LET S1 == ctx_pause(S, h, FALSE)
              IN IF single
                 THEN [S1 EXCEPT !.vals[h].ctx = "none",
                                 !.vals[h].nonEmpty = FALSE,
                                 !.vals[h].key = <<>>,
                                 !.vals[h].obj = 0]
                 ELSE S1
         ELSE S

val_Finished(h) == vals[h].ctx = "none"

val_Error(h) == IF vals[h].w THEN err ELSE 0

-----------------------------------------------------------------------------
(* The record kept with each running Array/Object call.  It follows the    *)
(* calls the callback makes and builds from them the text the composite is *)
(* to have: for an array, '[' and the texts of the values written through  *)
(* its inner handle, joined by commas; for an object, '{' and the pairs    *)
(* key:value of the Item calls each followed by one value, joined by       *)
(* commas.  clean says that the callback has so far made only such calls   *)
(* at its own level (what a callback nested in one of the values does is   *)
(* its own business, except that it leaves this object's builder and item  *)
(* handles alone).  The text of a value that is itself an Array or Object  *)
(* with a callback is whatever was written between its delimiters.         *)
(* An Item call made while the handle of an earlier Item call still waits  *)
(* for its value is recorded as dropped, and a write on the nil handle it  *)
(* returned as lostw; neither adds to the text.                            *)

Frame(kind, h, single, inner, start) ==
    [kind |-> kind, v |-> h, single |-> single, inner |-> inner,
     start |-> start, exp |-> <<IF kind = "array" THEN "[" ELSE "{">>,
     n |-> 0, pend |-> NilV, pkey |-> <<>>, clean |-> TRUE,
     dropped |-> FALSE, lostw |-> FALSE]

Dirty(f) ==
    [f EXCEPT !.clean = FALSE, !.exp = <<>>, !.n = 0, !.pend = NilV,
              !.pkey = <<>>, !.dropped = FALSE, !.lostw = FALSE]

\* The handle the next value of the composite is due on.
Slot(f) == IF f.kind = "array" THEN f.inner ELSE f.pend

Lead(f) ==
    (IF f.n > 0 THEN <<",">> ELSE <<>>) \o
    (IF f.kind = "object" THEN <<QuoteString(f.pkey), ":">> ELSE <<>>)

Element(f, text) ==
    [f EXCEPT !.exp = @ \o Lead(f) \o text, !.n = @ + 1, !.pend = NilV,
              !.pkey = <<>>]

\* A write call on val h; good: accepted and not a failed Marshal; text: the
\* tokens of its value (none yet when a callback is about to run).
NoteVal(stk, h, good, text) ==
    [i \in DOMAIN stk |->
        LET f == stk[i]
        IN IF ~f.clean THEN f
           ELSE IF i = Len(stk)
           THEN IF h # NilV /\ h = Slot(f) /\ good THEN Element(f, text)
                ELSE IF h = NilV /\ f.dropped THEN [f EXCEPT !.lostw = TRUE]
                ELSE Dirty(f)
           ELSE IF f.kind = "object" /\ h # NilV /\ vals[h].of = f.inner
           THEN Dirty(f) ELSE f]

\* Item(key) on obj o, returning ret.
NoteItem(stk, o, key, ret) ==
    [i \in DOMAIN stk |->
        LET f == stk[i]
        IN IF ~f.clean THEN f
           ELSE IF i = Len(stk)
           THEN IF f.kind = "object" /\ f.inner = o /\ f.pend = NilV
                   /\ ret # NilV
                THEN [f EXCEPT !.pend = ret, !.pkey = key]
                ELSE IF f.kind = "object" /\ f.inner = o /\ f.pend # NilV
                THEN [f EXCEPT !.dropped = TRUE]
                ELSE Dirty(f)
           ELSE IF f.kind = "object" /\ f.inner = o THEN Dirty(f) ELSE f]

\* Marshal on obj o.
NoteObjMarshal(stk, o) ==
    [i \in DOMAIN stk |->
        LET f == stk[i]
        IN IF ~f.clean THEN f
           ELSE IF i = Len(stk) \/ (f.kind = "object" /\ f.inner = o)
           THEN Dirty(f) ELSE f]

\* The innermost call returns: its text becomes that of the value it is in
\* the composite around it.
NoteReturn(stk, newOut) ==
    LET c == stk[Len(stk)]
        rest == SubSeq(stk, 1, Len(stk) - 1)
    IN [i \in DOMAIN rest |->
           IF i = Len(rest) /\ rest[i].clean
           THEN [rest[i] EXCEPT !.exp = @ \o SubSeq(newOut, c.start, Len(newOut))]
           ELSE rest[i]]

\* What is known of a composite when its call returns.
Closed(f, closer) ==
    [start |-> f.start, exp |-> IF f.clean THEN f.exp \o closer ELSE <<>>,
     n |-> f.n, clean |-> f.clean, pend |-> f.pend # NilV,
     dropped |-> f.dropped, lostw |-> f.lostw]

NoG ==
    [start |-> 0, exp |-> <<>>, n |-> 0, clean |-> FALSE, pend |-> FALSE,
     dropped |-> FALSE, lostw |-> FALSE]

-----------------------------------------------------------------------------
(* The calls.                                                              *)

Handles == 0..Len(vals)
Builders == 1..Len(objs)

\* op: the method; h: the receiver; ok: the call was accepted (prewrite);
\* ret: the handle or error returned, or the handle given to the callback;
\* g: for a return, the record of the composite closed.
ValWrites == {"write", "Marshal", "Array", "Object"}

\* A write call on a value handle that prewrite refused is recorded as
\* "ignored", whichever method it was: the methods differ only past prewrite.
Call(op, h, ok, ret, g) ==
    [op |-> IF ok \/ op \notin ValWrites THEN op ELSE "ignored",
     h |-> h, ok |-> ok, ret |-> ret, g |-> g]

ValCalls == ValWrites \cup {"ignored"}

\* The size of the output that MaxOut bounds: the values and the punctuation
\* around them; a key and its colon are not counted.
Size(toks) == Len(toks) - 2 * Len(SelectSeq(toks, LAMBDA t : t = ":"))

\* The state after a handler has run; the closing delimiters still due fit.
Commit(S, stk, l) ==
    /\ Size(S.out) + Len(stk) <= MaxOut
    /\ vals' = S.vals
    /\ objs' = S.objs
    /\ out' = S.out
    /\ err' = S.err
    /\ panicked' = S.panic
    /\ stack' = stk
    /\ last' = l

Got(S, h) == [S EXCEPT !.vals[h].got = TRUE]
Done(S, h) == [S EXCEPT !.vals[h].got = TRUE, !.vals[h].done = TRUE]

\* What a handler leaves when it has run on state S: the state, the records
\* of the running calls, and the record of this call.
Result(S, stk, l) == [S |-> S, stk |-> stk, l |-> l]

\* The handler has run and left r; a handler that made a val or an obj found
\* room for it on the heap.
Install(r) ==
    /\ Len(r.S.vals) + Len(r.S.objs) > Len(vals) + Len(objs)
          => Len(vals) + Len(objs) < MaxHeap
    /\ Commit(r.S, r.stk, r.l)

\* The body shared by the scalar writers: prewrite, one Write, postwrite.
WriteScalar_run(S, h, bytes) ==
    LET p == val_prewrite(S, h)
        S1 == IF p.ok
              THEN Done(val_postwrite(val_w_Write(p.s, h, bytes), h, p.single), h)
              ELSE p.s
    IN Result(S1, NoteVal(stack, h, p.ok, bytes), Call("write", h, p.ok, 0, NoG))

WriteScalar(h, e, bytes) ==
    /\ ~panicked
    /\ Install(WriteScalar_run(State(e), h, bytes))

val_Null(h, e) == WriteScalar(h, e, <<"null">>)

val_Bool(h, val, e) ==
    WriteScalar(h, e, IF val THEN <<"true">> ELSE <<"false">>)

val_Int(h, val, e) == WriteScalar(h, e, <<FormatInt(val)>>)

val_Uint(h, val, e) == WriteScalar(h, e, <<FormatUint(val)>>)

val_Float(h, value, e) == WriteScalar(h, e, <<FormatFloat(value)>>)

val_String(h, s, e) == WriteScalar(h, e, <<QuoteString(s)>>)

\* ret is 1 when Marshal returns a non-nil error.
val_Marshal_run(S, h, value) ==
    LET p == val_prewrite(S, h)
        m == json_Marshal(value)
        S1 == IF p.ok
              THEN val_postwrite(
                       IF ~m.err THEN val_w_Write(p.s, h, m.bytes) ELSE p.s,
                       h, p.single)
              ELSE p.s
        S2 == IF p.ok /\ ~m.err THEN Done(S1, h) ELSE S1
    IN Result(S2, NoteVal(stack, h, p.ok /\ ~m.err, m.bytes),
              Call("Marshal", h, p.ok, IF p.ok /\ m.err THEN 1 ELSE 0, NoG))

val_Marshal(h, value, e) ==
    /\ ~panicked
    /\ Install(val_Marshal_run(State(e), h, value))

\* Array up to the call of fn; with a nil fn, the whole of Array.
val_Array_run(S, h, fn) ==
    LET p == val_prewrite(S, h)
        S1 == val_w_Write(ctx_pause(p.s, h, TRUE), h, <<"[">>)
        a == Len(vals) + 1
    IN IF ~p.ok
       THEN Result(p.s, NoteVal(stack, h, FALSE, <<>>),
                   Call("Array", h, FALSE, 0, NoG))
       ELSE IF fn = "nil"
       THEN Result(Done(val_postwrite(val_w_Write(S1, h, <<"]">>), h, p.single), h),
                   NoteVal(stack, h, TRUE, <<"[", "]">>),
                   Call("Array", h, TRUE, 0, NoG))
       ELSE Result([Got(S1, h) EXCEPT
                      !.vals = Append(@, Val(S1.vals[h].w, "array", <<>>, 0))],
                   Append(NoteVal(stack, h, TRUE, <<>>),
                          Frame("array", h, p.single, a, Len(S1.out))),
                   Call("Array", h, TRUE, a, NoG))

val_Array(h, fn, e) ==
    /\ ~panicked
    /\ Install(val_Array_run(State(e), h, fn))

\* Array after fn has returned, leaving the inner handle its sink.
ArrayReturn_run_KeepSink(S) ==
    LET f == stack[Len(stack)]
        S2 == Done(val_postwrite(val_w_Write(S, f.v, <<"]">>), f.v, f.single), f.v)
    IN Result(S2, NoteReturn(stack, S2.out),
              Call("ArrayReturn", f.v, TRUE, f.inner, Closed(f, <<"]">>)))

\* Array after fn has returned.
ArrayReturn_run(S) ==
    LET f == stack[Len(stack)]
        S1 == [S EXCEPT !.vals[f.inner].w = FALSE]
        S2 == Done(val_postwrite(val_w_Write(S1, f.v, <<"]">>), f.v, f.single), f.v)
    IN Result(S2, NoteReturn(stack, S2.out),
              Call("ArrayReturn", f.v, TRUE, f.inner, Closed(f, <<"]">>)))

\* The innermost running call is an Array or Object: its callback returns.
Return(r) ==
    /\ vals' = r.S.vals
    /\ objs' = r.S.objs
    /\ out' = r.S.out
    /\ err' = r.S.err
    /\ panicked' = r.S.panic
    /\ stack' = r.stk
    /\ last' = r.l

ArrayReturn(e) ==
    /\ ~panicked
    /\ stack # <<>>
    /\ stack[Len(stack)].kind = "array"
    /\ Return(ArrayReturn_run(State(e)))

\* Item that does not pause the builder.
obj_Item_NoPause(o, key) ==
    /\ ~panicked
    /\ IF ~objs[o].paused
       THEN /\ Len(vals) + Len(objs) < MaxHeap
            /\ vals' = Append(vals, Val(objs[o].w, "item", key, o))
            /\ UNCHANGED objs
            /\ stack' = NoteItem(stack, o, key, Len(vals) + 1)
            /\ last' = Call("Item", o, TRUE, Len(vals) + 1, NoG)
       ELSE /\ UNCHANGED <<vals, objs>>
            /\ stack' = NoteItem(stack, o, key, NilV)
            /\ last' = Call("Item", o, FALSE, NilV, NoG)
    /\ UNCHANGED <<out, err, panicked>>

\* Item that does not look at the paused flag.
obj_Item_NoPauseCheck(o, key) ==
    /\ ~panicked
    /\ Len(vals) + Len(objs) < MaxHeap
    /\ vals' = Append(vals, Val(objs[o].w, "item", key, o))
    /\ objs' = [objs EXCEPT ![o].paused = TRUE]
    /\ stack' = NoteItem(stack, o, key, Len(vals) + 1)
    /\ last' = Call("Item", o, TRUE, Len(vals) + 1, NoG)
    /\ UNCHANGED <<out, err, panicked>>

\* ret is the handle returned: a new val, or nil.
obj_Item(o, key) ==
    /\ ~panicked
    /\ IF ~objs[o].paused
       THEN /\ Len(vals) + Len(objs) < MaxHeap
            /\ vals' = Append(vals, Val(objs[o].w, "item", key, o))
            /\ objs' = [objs EXCEPT ![o].paused = TRUE]
            /\ stack' = NoteItem(stack, o, key, Len(vals) + 1)
            /\ last' = Call("Item", o, TRUE, Len(vals) + 1, NoG)
       ELSE /\ UNCHANGED <<vals, objs>>
            /\ stack' = NoteItem(stack, o, key, NilV)
            /\ last' = Call("Item", o, FALSE, NilV, NoG)
    /\ UNCHANGED <<out, err, panicked>>

\* Marshal of type K; ret is 1 when it returns a non-nil error.
obj_Marshal_run(S, o, anyMap) ==
    LET m == json_Marshal(anyMap)
        p == obj_prewrite(S, o)
        stk == NoteObjMarshal(stack, o)
    IN IF m.err
       THEN Result(S, stk, Call("obj_Marshal", o, FALSE, 1, NoG))
       ELSE IF Len(m.bytes) > 2 /\ p.ok
       THEN Result(obj_w_Write(p.s, o, SubSeq(m.bytes, 2, Len(m.bytes) - 1)),
                   stk, Call("obj_Marshal", o, TRUE, 0, NoG))
       ELSE Result(S, stk, Call("obj_Marshal", o, FALSE, 0, NoG))

obj_Marshal(o, anyMap, e) ==
    /\ ~panicked
    /\ Install(obj_Marshal_run(State(e), o, anyMap))

\* Object up to the call of fn; with a nil fn, the whole of Object.
val_Object_run(S, h, fn) ==
    LET p == val_prewrite(S, h)
        S1 == val_w_Write(ctx_pause(p.s, h, TRUE), h, <<"{">>)
        jso == Len(objs) + 1
    IN IF ~p.ok
       THEN Result(p.s, NoteVal(stack, h, FALSE, <<>>),
                   Call("Object", h, FALSE, 0, NoG))
       ELSE IF fn = "nil"
       THEN Result(Done(val_postwrite(val_w_Write(S1, h, <<"}">>), h, p.single), h),
                   NoteVal(stack, h, TRUE, <<"{", "}">>),
                   Call("Object", h, TRUE, 0, NoG))
       ELSE Result([Got(S1, h) EXCEPT !.objs = Append(@, Obj(S1.vals[h].w))],
                   Append(NoteVal(stack, h, TRUE, <<>>),
                          Frame("object", h, p.single, jso, Len(S1.out))),
                   Call("Object", h, TRUE, jso, NoG))

val_Object(h, fn, e) ==
    /\ ~panicked
    /\ Install(val_Object_run(State(e), h, fn))

\* Object after fn has returned, without the closing brace.
ObjectReturn_run_NoClose(S) ==
    LET f == stack[Len(stack)]
        S1 == [S EXCEPT !.objs[f.inner].w = FALSE]
        S2 == Done(val_postwrite(S1, f.v, f.single), f.v)
    IN Result(S2, NoteReturn(stack, S2.out),
              Call("ObjectReturn", f.v, TRUE, f.inner, Closed(f, <<"}">>)))

\* Object after fn has returned.
ObjectReturn_run(S) ==
    LET f == stack[Len(stack)]
        S1 == [S EXCEPT !.objs[f.inner].w = FALSE]
        S2 == Done(val_postwrite(val_w_Write(S1, f.v, <<"}">>), f.v, f.single), f.v)
    IN Result(S2, NoteReturn(stack, S2.out),
              Call("ObjectReturn", f.v, TRUE, f.inner, Closed(f, <<"}">>)))

ObjectReturn(e) ==
    /\ ~panicked
    /\ stack # <<>>
    /\ stack[Len(stack)].kind = "object"
    /\ Return(ObjectReturn_run(State(e)))

\* Finished() and Error() read the handle and change nothing; their results
\* are val_Finished(h) and val_Error(h).  On the nil handle both dereference
\* nil.  The nil handle is queried where the API returned it: on the result
\* of the Item call just made.
Query(op, h) ==
    /\ ~panicked
    /\ IF h = NilV
       THEN /\ last.op = "Item" /\ last.ret = NilV
            /\ panicked' = TRUE
            /\ last' = Call(op, NilV, FALSE, 0, NoG)
            /\ UNCHANGED <<vals, objs, out, stack, err>>
       ELSE UNCHANGED vars

Call_Finished(h) == Query("Finished", h)

Call_Error(h) == Query("Error", h)

-----------------------------------------------------------------------------
(* NewStreamWriter: the root val over the wrapped writer.                  *)

NewStreamWriter == <<Val(TRUE, "single", <<>>, 0)>>

Init ==
    /\ vals = NewStreamWriter
    /\ objs = <<>>
    /\ out = <<>>
    /\ stack = <<>>
    /\ err = 0
    /\ panicked = FALSE
    /\ last = Call("NewStreamWriter", 1, TRUE, 1, NoG)

Next ==
    \/ \E h \in Handles, e \in SinkOk : val_Null(h, e)
    \/ \E h \in Handles, b \in BoolArgs, e \in SinkOk : val_Bool(h, b, e)
    \/ \E h \in Handles, n \in IntArgs, e \in SinkOk : val_Int(h, n, e)
    \/ \E h \in Handles, n \in UintArgs, e \in SinkOk : val_Uint(h, n, e)
    \/ \E h \in Handles, x \in FloatArgs, e \in SinkOk : val_Float(h, x, e)
    \/ \E h \in Handles, s \in StringArgs, e \in SinkOk : val_String(h, s, e)
    \/ \E h \in Handles, x \in MarshalArgs, e \in SinkOk : val_Marshal(h, x, e)
    \/ \E h \in Handles, fn \in FnArgs, e \in SinkOk : val_Array(h, fn, e)
    \/ \E h \in Handles, fn \in FnArgs, e \in SinkOk : val_Object(h, fn, e)
    \/ \E o \in Builders, k \in KeyArgs : obj_Item(o, k)
    \/ \E o \in Builders, m \in MapArgs, e \in SinkOk : obj_Marshal(o, m, e)
    \/ \E e \in SinkOk : ArrayReturn(e)
    \/ \E e \in SinkOk : ObjectReturn(e)
    \/ \E h \in Handles : Call_Finished(h)
    \/ \E h \in Handles : Call_Error(h)

Spec == Init /\ [][Next]_vars

-----------------------------------------------------------------------------
(* The stream writer over an underlying writer whose Write may fail, as the *)
(* StringBuilderWrapper of Test_WriterErrorCheck does.  Each error it       *)
(* returns is a new one: error 1 first, then error 2.                       *)

Errors == {1, 2}

\* What the underlying writer may return to the Write calls of a handler.
SinkErr == {0} \cup {e \in Errors : e = err + 1}

NextErr ==
    \/ \E h \in Handles, n \in IntArgs, e \in SinkErr : val_Int(h, n, e)
    \/ \E h \in Handles, fn \in FnArgs, e \in SinkErr : val_Array(h, fn, e)
    \/ \E h \in Handles, fn \in FnArgs, e \in SinkErr : val_Object(h, fn, e)
    \/ \E o \in Builders, k \in KeyArgs : obj_Item(o, k)
    \/ \E e \in SinkErr : ArrayReturn(e)
    \/ \E e \in SinkErr : ObjectReturn(e)
    \/ \E h \in Handles : Call_Finished(h)
    \/ \E h \in Handles : Call_Error(h)

SpecErr == Init /\ [][NextErr]_vars

-----------------------------------------------------------------------------
(* JSON text (RFC 8259) over tokens: the state of a recogniser after the   *)
(* tokens read so far.  mode "bad": no JSON document begins so; "done":    *)
(* exactly one complete value has been read.                               *)

StringTokens == {QuoteString(s) : s \in StringArgs \cup KeyArgs}
Punctuation == {"[", "]", "{", "}", ",", ":"}

AfterValue(stk) ==
    [stk |-> stk, mode |-> IF stk = <<>> THEN "done" ELSE "sep"]

Bad == [stk |-> <<>>, mode |-> "bad"]

JsonStep(st, t) ==
    LET top == IF st.stk = <<>> THEN "" ELSE st.stk[Len(st.stk)]
        pop == SubSeq(st.stk, 1, Len(st.stk) - 1)
    IN CASE st.mode \in {"val", "valOrClose"} ->
              IF t = "[" THEN [stk |-> Append(st.stk, "A"), mode |-> "valOrClose"]
              ELSE IF t = "{" THEN [stk |-> Append(st.stk, "O"), mode |-> "keyOrClose"]
              ELSE IF t = "]" /\ st.mode = "valOrClose" THEN AfterValue(pop)
              ELSE IF t \notin Punctuation THEN AfterValue(st.stk)
              ELSE Bad
         [] st.mode \in {"key", "keyOrClose"} ->
              IF t \in StringTokens THEN [stk |-> st.stk, mode |-> "colon"]
              ELSE IF t = "}" /\ st.mode = "keyOrClose" THEN AfterValue(pop)
              ELSE Bad
         [] st.mode = "colon" ->
              IF t = ":" THEN [stk |-> st.stk, mode |-> "val"] ELSE Bad
         [] st.mode = "sep" ->
              IF t = "," THEN [stk |-> st.stk,
                               mode |-> IF top = "A" THEN "val" ELSE "key"]
              ELSE IF t = "]" /\ top = "A" THEN AfterValue(pop)
              ELSE IF t = "}" /\ top = "O" THEN AfterValue(pop)
              ELSE Bad
         [] OTHER -> Bad

RECURSIVE JsonRead(_, _)
JsonRead(st, toks) ==
    IF toks = <<>> THEN st ELSE JsonRead(JsonStep(st, Head(toks)), Tail(toks))

Json(toks) == JsonRead([stk |-> <<>>, mode |-> "val"], toks)

\* The output from position i on.
From(i) == SubSeq(out, i, Len(out))

TopFrame == stack[Len(stack)]

-----------------------------------------------------------------------------
(* The claims.                                                             *)

\* C1: under every sequence and nesting of calls, misuse included, the
\* output is at every moment the beginning of one well-formed JSON
\* document, no call panics, and once the root reports Finished the output
\* is exactly one complete JSON value.
C1_WellFormedOutput ==
    /\ ~panicked
    /\ Json(out).mode # "bad"
    /\ val_Finished(1) => Json(out).mode = "done"

\* C2: the values written, all successfully, through the inner handle of an
\* Array callback give '[', their texts in call order joined by commas (one
\* less than there are values), and ']' once the call returns; with a nil
\* callback the text is '[]'.
C2_ArrayText ==
    /\ (stack # <<>> /\ TopFrame.kind = "array" /\ TopFrame.clean)
           => From(TopFrame.start) = TopFrame.exp
    /\ (last.op = "ArrayReturn" /\ last.g.clean)
           => From(last.g.start) = last.g.exp
    /\ (last.op = "Array" /\ last.ok /\ last.ret = 0)
           => /\ Len(out) >= 2
              /\ From(Len(out) - 1) = <<"[", "]">>

\* An array of two or more values, written as the claim has it, is closed.
C2_Witness ==
    /\ last.op = "ArrayReturn"
    /\ last.g.clean
    /\ last.g.n >= 2

\* C3: Item calls in an Object callback, each handle given one value before
\* the next Item call, give '{', the pairs "key":value in call order joined
\* by commas, and '}' once the call returns; a nil callback or one that adds
\* nothing gives '{}'.
C3_ObjectText ==
    /\ (stack # <<>> /\ TopFrame.kind = "object" /\ TopFrame.clean
        /\ ~TopFrame.dropped)
           => From(TopFrame.start) = TopFrame.exp
    /\ (last.op = "ObjectReturn" /\ last.g.clean /\ ~last.g.dropped
        /\ ~last.g.pend)
           => From(last.g.start) = last.g.exp
    /\ (last.op = "Object" /\ last.ok /\ last.ret = 0)
           => /\ Len(out) >= 2
              /\ From(Len(out) - 1) = <<"{", "}">>

\* An object of two pairs, written as the claim has it, is closed.
C3_Witness ==
    /\ last.op = "ObjectReturn"
    /\ last.g.clean /\ ~last.g.dropped /\ ~last.g.pend
    /\ last.g.n >= 2

\* C4: while the callback of an Array or Object runs, a write on the slot
\* the composite was opened on (the root, an array's handle, an object's
\* item handle), at any depth, emits nothing; when the callback has
\* returned, an array slot takes writes again.
C4_NestedIsolation ==
    [][/\ \A i \in DOMAIN stack :
            (last'.op \in ValCalls /\ last'.h = stack[i].v) => out' = out
       /\ (last'.op \in {"ArrayReturn", "ObjectReturn"}
           /\ vals'[last'.h].made = "array") => ~vals'[last'.h].paused
      ]_vars

\* C5: once a write through the root slot or an object-item handle has
\* returned, every further write through that handle emits nothing.
C5_IgnoreAfterFirst ==
    [][\A h \in 1..Len(vals) :
          (/\ vals[h].made \in {"single", "item"}
           /\ vals[h].done
           /\ last'.op \in ValCalls
           /\ last'.h = h) => out' = out
      ]_vars

\* A second write through an item handle that has its value was ignored.
C5_Witness ==
    /\ last.op = "ignored"
    /\ last.h # NilV
    /\ ~last.ok
    /\ vals[last.h].made = "item"
    /\ vals[last.h].done
    /\ vals[last.h].w

\* C6: while a handle made by Item on an object builder has not received a
\* value, every further Item call on that builder returns a handle whose
\* writes emit nothing (nil, or a handle without a sink).
C6_PendingItemBlocksItem ==
    (/\ last.op = "Item"
     /\ \E h \in 1..Len(vals) : /\ h # last.ret
                                /\ vals[h].made = "item"
                                /\ vals[h].of = last.h
                                /\ ~vals[h].got)
        => (last.ret = NilV \/ ~vals[last.ret].w)

\* C7 as stated: an Item handle never given a value adds nothing, and the
\* Item calls the callback makes after it on the same builder still return
\* handles that emit their items.
C7_LaterItemsEmitted ==
    (/\ last.op = "Item"
     /\ stack # <<>>
     /\ TopFrame.kind = "object" /\ TopFrame.inner = last.h
     /\ TopFrame.clean)
        => (last.ret # NilV /\ vals[last.ret].w)

\* C7 as amended: an Item handle never given a value adds nothing, and every
\* Item call the callback makes on the same builder while that handle waits
\* returns nil, so the later items are dropped: the object holds the pairs
\* written before, and is '{}' when there were none.
C7_PendingItemDropsLater ==
    /\ (/\ last.op = "Item"
        /\ stack # <<>>
        /\ TopFrame.kind = "object" /\ TopFrame.inner = last.h
        /\ TopFrame.clean
        /\ TopFrame.pend # last.ret) => last.ret = NilV
    /\ (stack # <<>> /\ TopFrame.kind = "object" /\ TopFrame.clean
        /\ TopFrame.dropped)
           => From(TopFrame.start) = TopFrame.exp
    /\ (last.op = "ObjectReturn" /\ last.g.clean /\ last.g.pend)
           => From(last.g.start) = last.g.exp

\* Item, then Item again and a write on what it returned, then the return:
\* the object is '{}'.
C7_Witness ==
    /\ last.op = "ObjectReturn"
    /\ last.g.clean /\ last.g.pend /\ last.g.dropped /\ last.g.lostw
    /\ last.g.n = 0
    /\ From(last.g.start) = <<"{", "}">>

\* C8: a Marshal on a value handle that fails to marshal its argument writes
\* nothing, whatever context the handle is in.
C8_FailedMarshalWritesNothing ==
    [][(last'.op = "Marshal" /\ last'.ret = 1) => out' = out]_vars

\* C9: a Marshal on a value handle that fails leaves the handle as it was:
\* its context stays attached (Finished stays false) and its flags are
\* unchanged, so the next write through it is accepted.
C9_FailedMarshalKeepsSlot ==
    [][\A h \in 1..Len(vals) :
          (last'.op = "Marshal" /\ last'.ret = 1 /\ last'.h = h)
              => /\ vals'[h].ctx = vals[h].ctx
                 /\ vals'[h].nonEmpty = vals[h].nonEmpty
                 /\ objs' = objs
      ]_vars

\* C10: Marshal of a map that marshals, on an object builder inside its
\* callback and not paused: an empty map emits nothing and leaves the
\* has-emitted flag; a non-empty map emits its pairs without the braces,
\* after a comma exactly when the builder had emitted before, and sets the
\* flag.
C10_ObjMarshal ==
    [][\A o \in 1..Len(objs), m \in MapArgs :
          (/\ last'.op = "obj_Marshal" /\ last'.h = o
           /\ obj_Marshal(o, m, 0)
           /\ ~json_Marshal(m).err
           /\ objs[o].w /\ ~objs[o].paused)
              => IF m.kv = <<>>
                 THEN out' = out /\ objs'[o].nonEmpty = objs[o].nonEmpty
                 ELSE /\ out' = out \o (IF objs[o].nonEmpty THEN <<",">> ELSE <<>>)
                                    \o MarshalPairs(m.kv).bytes
                      /\ objs'[o].nonEmpty
      ]_vars

\* A non-empty map was marshalled into a builder that had an item before.
C10_Witness ==
    /\ last.op = "obj_Marshal"
    /\ last.ok
    /\ objs[last.h].w /\ ~objs[last.h].paused
    /\ Len(out) >= 5
    /\ out[Len(out) - 3] = ","

\* The Array or Object call that made array handle h or builder o is running.
Open(kind, inner) ==
    \E i \in DOMAIN stack : stack[i].kind = kind /\ stack[i].inner = inner

\* C11: once the callback of an Array has returned, no write through the
\* array's inner handle emits anything, whenever it is made; once the
\* callback of an Object has returned, Item on its builder returns nil or a
\* handle without a sink, such a handle never gets a sink, and no write
\* through it emits anything.
C11_EscapedHandlesInert ==
    [][/\ \A h \in 1..Len(vals) :
            (/\ vals[h].made = "array" /\ ~Open("array", h)
             /\ last'.op \in ValCalls /\ last'.h = h) => out' = out
       /\ \A o \in 1..Len(objs) :
            (/\ ~Open("object", o)
             /\ last'.op = "Item" /\ last'.h = o /\ last'.ret # NilV)
                => ~vals'[last'.ret].w
       /\ \A h \in 1..Len(vals) :
            (vals[h].made = "item" /\ ~vals[h].w)
                => /\ ~vals'[h].w
                   /\ (last'.op \in ValCalls /\ last'.h = h) => out' = out
      ]_vars

\* A write was made through a handle that Item returned on a builder whose
\* Object callback had returned, while an array is still being filled.
C11_Witness ==
    /\ last.op = "ignored"
    /\ last.h # NilV
    /\ vals[last.h].made = "item"
    /\ ~vals[last.h].w
    /\ ~Open("object", vals[last.h].of)
    /\ stack # <<>>

\* C12: a handle that Item returned inside an Object callback and that got
\* no value before the callback returned emits nothing, key or value, when
\* it is written through after the object's '}'.
C12_UnwrittenItemInert ==
    [][\A h \in 1..Len(vals) :
          (/\ vals[h].made = "item" /\ vals[h].w /\ ~vals[h].got
           /\ ~Open("object", vals[h].of)
           /\ last'.op \in ValCalls /\ last'.h = h) => out' = out
      ]_vars

\* What Finished() on the root returns, by the call made last.
C13_RootState ==
    /\ last.op = "NewStreamWriter" => ~val_Finished(1)
    /\ (\E i \in DOMAIN stack : stack[i].v = 1) => ~val_Finished(1)
    /\ (/\ last.h = 1 /\ last.ok
        /\ \/ last.op = "write"
           \/ last.op = "Marshal" /\ last.ret = 0
           \/ last.op \in {"Array", "Object"} /\ last.ret = 0
           \/ last.op \in {"ArrayReturn", "ObjectReturn"})
           => val_Finished(1)

\* C13: Finished() on the root is false on a fresh stream writer and all
\* through the callback of an Array or Object opened on the root, true once
\* an accepted root write (scalar, successful Marshal, Array, Object) has
\* returned, and never false again after it was true.
C13_RootFinished ==
    /\ []C13_RootState
    /\ [][val_Finished(1) => vals'[1].ctx = "none"]_vars

\* The root's Array returned after a value was written in it, as in
\* Test_Finished.
C13_Witness ==
    /\ last.op = "ArrayReturn"
    /\ last.h = 1
    /\ last.g.clean /\ last.g.n >= 1
    /\ val_Finished(1)

\* A step of a handler that calls Write, the underlying writer returning e.
Writes(e) ==
    \/ \E h \in Handles : val_Null(h, e)
    \/ \E h \in Handles, b \in BoolArgs : val_Bool(h, b, e)
    \/ \E h \in Handles, n \in IntArgs : val_Int(h, n, e)
    \/ \E h \in Handles, n \in UintArgs : val_Uint(h, n, e)
    \/ \E h \in Handles, x \in FloatArgs : val_Float(h, x, e)
    \/ \E h \in Handles, t \in StringArgs : val_String(h, t, e)
    \/ \E h \in Handles, x \in MarshalArgs : val_Marshal(h, x, e)
    \/ \E h \in Handles, fn \in FnArgs : val_Array(h, fn, e)
    \/ \E h \in Handles, fn \in FnArgs : val_Object(h, fn, e)
    \/ \E o \in Builders, m \in MapArgs : obj_Marshal(o, m, e)
    \/ ArrayReturn(e)
    \/ ObjectReturn(e)

\* C14 as stated: the wrapper latches the first error; once an error is
\* held, no later write, failing or succeeding, replaces or clears it.
C14_LatchesFirstError ==
    [][err # 0 => err' = err]_vars

\* C14 as amended: the wrapper holds the error of the latest failed write: a
\* handler whose writes fail with e leaves e in place of whatever was held,
\* a handler whose writes succeed, or that makes no write, leaves what was
\* held, and nothing clears it.
C14_KeepsLastError ==
    [][\A e \in {0} \cup Errors :
          \/ err' = IF e # 0 /\ out' # out THEN e ELSE err
          \/ ~Writes(e)
      ]_vars

\* Error() on the root returns the second error of the underlying writer:
\* the first one was held before it and has been replaced.
C14_Witness ==
    /\ val_Error(1) = 2
    /\ out # <<>>
    /\ val_Finished(1)

\* The texts the scalar writers hand to Write.
ScalarTexts ==
    {<<"null">>}
    \cup {IF b THEN <<"true">> ELSE <<"false">> : b \in BoolArgs}
    \cup {<<FormatInt(n)>> : n \in IntArgs}
    \cup {<<FormatUint(n)>> : n \in UintArgs}
    \cup {<<FormatFloat(x)>> : x \in FloatArgs}
    \cup {<<QuoteString(t)>> : t \in StringArgs}

\* The state a handler starts from in a run whose underlying writer has
\* never failed and does not fail now, and the states it starts from in this
\* run, the wrapper holding the error it holds, for each thing the writer may
\* return to the handler.
NeverFailed == [State(0) EXCEPT !.err = 0]
SomeFailed == {State(e) : e \in {0} \cup Errors}

\* What a handler leaves, the error held set aside: the chunks offered to
\* the underlying writer so far, the heap (every Finished() result is read
\* from it), and the records of the calls.
Seen(r) ==
    [vals |-> r.S.vals, objs |-> r.S.objs, out |-> r.S.out,
     panic |-> r.S.panic, stk |-> r.stk, l |-> r.l]

\* C15: in every state of a run whose underlying writer fails at will, every
\* handler, whatever the writer returns to it and whatever error is held,
\* offers the same chunks and leaves the same heap (hence the same
\* Finished() results) as it does from the same state when no write has
\* ever failed; so the run and the run of the same calls over a writer that
\* never fails stay in step, and writes go on after an error.
C15_SinkErrorsUnseen ==
    \A F \in SomeFailed :
        /\ \A h \in Handles :
              /\ \A b \in ScalarTexts :
                    Seen(WriteScalar_run(F, h, b))
                        = Seen(WriteScalar_run(NeverFailed, h, b))
              /\ \A x \in MarshalArgs :
                    Seen(val_Marshal_run(F, h, x))
                        = Seen(val_Marshal_run(NeverFailed, h, x))
              /\ \A fn \in FnArgs :
                    /\ Seen(val_Array_run(F, h, fn))
                           = Seen(val_Array_run(NeverFailed, h, fn))
                    /\ Seen(val_Object_run(F, h, fn))
                           = Seen(val_Object_run(NeverFailed, h, fn))
        /\ \A o \in Builders, m \in MapArgs :
              Seen(obj_Marshal_run(F, o, m))
                  = Seen(obj_Marshal_run(NeverFailed, o, m))
        /\ (stack # <<>> /\ TopFrame.kind = "array")
              => Seen(ArrayReturn_run(F)) = Seen(ArrayReturn_run(NeverFailed))
        /\ (stack # <<>> /\ TopFrame.kind = "object")
              => Seen(ObjectReturn_run(F)) = Seen(ObjectReturn_run(NeverFailed))

\* As in Test_WriterErrorCheck: the root's array is complete, two or more
\* values in it, though writes have failed on the way.
C15_Witness ==
    /\ err # 0
    /\ last.op = "ArrayReturn" /\ last.h = 1
    /\ last.g.clean /\ last.g.n >= 2
    /\ Json(out).mode = "done"
    /\ val_Finished(1)

\* C16: no public call panics: the writers, Finished and Error on every
\* handle the API returns, the nil handle that Item returns on a paused
\* builder included, and Item and Marshal on every builder, one kept after
\* its Object callback returned included.
C16_NoPanic == panicked = FALSE

\* C17: a write on a slot (the root, an array's handle, an item handle) made
\* while the callback of an Array or Object opened on that slot runs emits
\* nothing, retires nothing and un-pauses nothing.
C17_SelfWriteIgnored ==
    [][\A i \in DOMAIN stack :
          (last'.op \in ValCalls /\ last'.h = stack[i].v)
              => /\ out' = out
                 /\ vals'[stack[i].v].ctx = vals[stack[i].v].ctx
                 /\ vals'[stack[i].v].paused = vals[stack[i].v].paused
                 /\ objs' = objs
      ]_vars

\* C18: Marshal on an object builder that is paused (a handle made by Item
\* waits for its value, or an Array or Object opened on one is running)
\* emits nothing and changes no flag, whatever the map.
C18_PausedObjMarshalIgnored ==
    [][\A o \in 1..Len(objs) :
          (objs[o].paused /\ last'.op = "obj_Marshal" /\ last'.h = o)
              => out' = out /\ objs' = objs
      ]_vars

\* The handles made by Item on builder o whose context is still attached.
Unretired(o) ==
    {h \in 1..Len(vals) :
        vals[h].made = "item" /\ vals[h].of = o /\ vals[h].ctx = "item"}

C19_OnePendingItem ==
    \A o \in 1..Len(objs) :
        /\ Cardinality(Unretired(o)) <= 1
        /\ objs[o].paused <=> Unretired(o) # {}

\* C19: a builder has at most one unretired item handle at any time; its
\* pause flag is set exactly while it has one; and the flag is cleared only
\* by the completion of a write call made through that handle (the call, or
\* the return of the Array or Object it opened), which retires the handle.
C19_PauseFollowsItem ==
    /\ []C19_OnePendingItem
    /\ [][\A o \in 1..Len(objs) :
             (objs[o].paused /\ ~objs'[o].paused)
                 => /\ last'.op \in ValWrites \cup {"ArrayReturn", "ObjectReturn"}
                    /\ last'.h \in Unretired(o)
                    /\ vals'[last'.h].ctx = "none"
         ]_vars

\* The builder was paused by Item, the handle got its value and the builder
\* is free again; then Item paused it once more.
C19_Witness ==
    /\ last.op = "Item" /\ last.ok
    /\ objs[last.h].paused
    /\ Unretired(last.h) = {last.ret}
    /\ \E h \in 1..Len(vals) :
          /\ vals[h].made = "item" /\ vals[h].of = last.h
          /\ vals[h].done /\ vals[h].ctx = "none"

\* The opening delimiters of toks that have no closing delimiter yet, in
\* order; "bad" once a closing delimiter did not match the latest of them.
RECURSIVE Unclosed(_, _)
Unclosed(open, toks) ==
    IF toks = <<>> THEN open
    ELSE LET t == Head(toks)
             top == IF open = <<>> THEN "" ELSE open[Len(open)]
         IN IF open = <<"bad">> THEN open
            ELSE IF t \in {"[", "{"} THEN Unclosed(Append(open, t), Tail(toks))
            ELSE IF (t = "]" /\ top = "[") \/ (t = "}" /\ top = "{")
            THEN Unclosed(SubSeq(open, 1, Len(open) - 1), Tail(toks))
            ELSE IF t \in {"]", "}"} THEN <<"bad">>
            ELSE Unclosed(open, Tail(toks))

\* The opening delimiters of the Array and Object calls that are running.
Running == [i \in DOMAIN stack |-> IF stack[i].kind = "array" THEN "[" ELSE "{"]

\* C20: the delimiters are balanced and nested under every call sequence:
\* the unclosed opening delimiters of the output are those of the running
\* Array and Object calls, outermost first, no closing delimiter ever fails
\* to match; an accepted call has written its opening delimiter when its
\* callback starts and its closing one when it returns; and when the root's
\* call has returned nothing is open.
C20_DelimitersBalanced ==
    /\ Unclosed(<<>>, out) = Running
    /\ (last.op \in {"Array", "Object"} /\ last.ok /\ last.ret # 0)
          => /\ out[Len(out)] = (IF last.op = "Array" THEN "[" ELSE "{")
             /\ TopFrame.v = last.h
    /\ (last.op \in {"Array", "Object"} /\ last.ok /\ last.ret = 0)
          => From(Len(out) - 1)
                = (IF last.op = "Array" THEN <<"[", "]">> ELSE <<"{", "}">>)
    /\ last.op = "ArrayReturn" => out[Len(out)] = "]"
    /\ last.op = "ObjectReturn" => out[Len(out)] = "}"
    /\ (last.op \in {"ArrayReturn", "ObjectReturn"} /\ last.h = 1)
          => Unclosed(<<>>, out) = <<>>

\* The root's object, an array nested in it, has been closed after calls
\* that the callbacks should not have made.
C20_Witness ==
    /\ last.op = "ObjectReturn" /\ last.h = 1
    /\ ~last.g.clean
    /\ \E i \in 1..Len(out) : out[i] = "]"
    /\ Json(out).mode = "bad"

\* The pre-write check of val h refuses: h is nil, finished (no context),
\* without a sink, or paused.
Refused(h) ==
    h = NilV \/ vals[h].ctx = "none" \/ ~vals[h].w \/ vals[h].paused

\* What the program holds of a running Array or Object call.
Activation(f) ==
    [kind |-> f.kind, v |-> f.v, single |-> f.single, inner |-> f.inner,
     start |-> f.start]

\* C21: a write call (scalar, Marshal, Array, Object) on a value handle that
\* is nil, finished, without a sink or paused has no effect: nothing is
\* written, no val or obj is made and no callback is started, and no field
\* of any val or obj changes; the wrapper's error stays and nothing panics.
C21_RefusedWriteNoEffect ==
    [][\A h \in Handles :
          (Refused(h) /\ last'.op \in ValCalls /\ last'.h = h)
              => /\ out' = out
                 /\ vals' = vals
                 /\ objs' = objs
                 /\ err' = err
                 /\ ~panicked'
                 /\ Len(stack') = Len(stack)
                 /\ \A i \in DOMAIN stack :
                        Activation(stack'[i]) = Activation(stack[i])
      ]_vars

\* A write was made through an array's handle while a composite opened on
\* it was being filled, after the array had got a first element.
C21_Witness ==
    /\ last.op = "ignored"
    /\ last.h # NilV
    /\ vals[last.h].paused
    /\ vals[last.h].w
    /\ vals[last.h].made = "array"
    /\ vals[last.h].nonEmpty
    /\ \E i \in DOMAIN stack : stack[i].v = last.h

\* C22: Marshal on a value handle returns a non-nil error exactly when its
\* argument cannot be marshaled, in whatever state the handle is (fresh,
\* finished, paused, without a sink).
C22_MarshalErrorIffUnserializable ==
    ~panicked =>
        \A h \in 1..Len(vals) : \A value \in MarshalArgs :
            (val_Marshal_run(State(0), h, value).l.ret = 1)
                <=> json_Marshal(value).err

====
